---- MODULE Spec2Model ----
(***************************************************************************)
(* Demand paging simulator (src/main.cpp): main() resets the page table,   *)
(* the frame table and the free frame list and then runs FIFO, LRU, MRU,   *)
(* OPT, RAN and RAN2 one after the other over reference_string.txt.        *)
(*                                                                         *)
(* One behaviour of the model is one execution of main() for one content   *)
(* of reference_string.txt, one value of MAX_PAGE_FRAMES and one build.    *)
(* One action is one iteration of a policy's reading loop (extraction and  *)
(* the whole hit / fault handling of that reference).                      *)
(***************************************************************************)
EXTENDS Integers, Sequences, FiniteSets, TLC

\* ------------------------------------------------------------- bounds
\* page identifiers of the enumerated traces are 0 .. MaxPage-1
MaxPage == 3
\* the enumerated traces have 0 .. MaxLen entries
MaxLen == 4
\* MAX_PAGE_FRAMES ranges over 2 .. MaxFrames (with a single frame FIFO's cursor
\* leaves the frame table after its first use: FIFOSelection becomes -1)
MaxFrames == 3

\* ------------------------------------------------- program constants
MAX_NUM_PAGES == 1024
PROC_POOL_SIZE == 500
INVALID_BIT == 0
VALID_BIT == 1
\* page_table and frame_table are declared without an initializer
Indeterminate == -2

Policies == <<"FIFO", "LRU", "MRU", "OPT", "RAN", "RAN2">>

VARIABLES
    file,                  \* reference_string.txt: the tokens, each followed by "\n"
    MAX_PAGE_FRAMES,       \* the #define, fixed for the whole behaviour
    postinc,               \* what `x = x++` adds to x in this build (0 or 1)
    page_table,            \* main's page_table, shared by all runs (rows that occur)
    frame_table,           \* main's frame_table, shared by all runs
    main_free_frame_list,  \* main's free_frame_list vector
    pc,                    \* "reset", "call", "loop", "done"
    run,                   \* index into Policies of the current run
    free_frame_list,       \* the callee's by-value copy
    pos,                   \* tokens the callee's ifstream has consumed
    eof,                   \* addresses.eof()
    referenceString,       \* the callee's std::string (a sequence of digits)
    reference,             \* the callee's int reference
    fault_rate,            \* the callee's fault counter
    FIFOSelection,         \* FIFO's cursor
    erased,                \* OPT: elements erased from the front of reference_string
    freeframe,             \* the frame chosen by the last fault
    path,                  \* branch taken by the last iteration
    loaded_at,             \* per page: the number of the fault that last bound it (0: none)
    report                 \* fault counts printed so far, by policy

vars == <<file, MAX_PAGE_FRAMES, postinc, page_table, frame_table,
          main_free_frame_list, pc, run, free_frame_list, pos, eof,
          referenceString, reference, fault_rate, FIFOSelection, erased,
          freeframe, path, loaded_at, report>>

\* ------------------------------------------------------------ helpers
Last(s) == s[Len(s)]
\* vector::pop_back
pop_back(s) == SubSeq(s, 1, Len(s) - 1)
\* vector::push_back
push_back(s, x) == Append(s, x)

\* fprintf(ref, "%i\n", n): the decimal digits of a non-negative int
RECURSIVE fprintf_i(_)
fprintf_i(n) == IF n < 10 THEN <<n>> ELSE Append(fprintf_i(n \div 10), n % 10)

\* atoi on a string of digits; atoi("") is 0
RECURSIVE atoiAcc(_, _, _)
atoiAcc(s, i, acc) ==
    IF i > Len(s) THEN acc ELSE atoiAcc(s, i + 1, acc * 10 + s[i])
atoi(s) == atoiAcc(s, 1, 0)

\* the file createReferenceString-style writers produce for a trace
FileOf(trace) == [i \in 1..Len(trace) |-> fprintf_i(trace[i])]

\* The classic Belady trace and a ramp of distinct pages ending in a repeat
BeladyTrace == <<0, 1, 2, 3, 0, 1, 4, 0, 1, 2, 3, 4>>
RampTrace == <<0, 1, 2, 3, 4, 5, 4>>

Traces ==
    (UNION {[1..n -> 0..(MaxPage - 1)] : n \in 0..MaxLen})
        \cup {BeladyTrace, RampTrace}

\* traces with an entry at or beyond MAX_NUM_PAGES
OutOfRangeTraces ==
    {<<MAX_NUM_PAGES>>, <<0, MAX_NUM_PAGES, 1>>, <<1, MAX_NUM_PAGES + 1, 0, MAX_NUM_PAGES + 1>>}

\* files longer than PROC_POOL_SIZE as createReferenceString writes them: the
\* batch under way when the count reaches PROC_POOL_SIZE is written in full,
\* so the entries past PROC_POOL_SIZE repeat entry PROC_POOL_SIZE
LongTraces ==
    {[i \in 1..(PROC_POOL_SIZE - 4) |-> 0] \o <<a, b>> \o [i \in 1..4 |-> c] :
        a \in 0..(MaxPage - 1), b \in 0..(MaxPage - 1), c \in 0..(MaxPage - 1)}

Frames == 0..(MAX_PAGE_FRAMES - 1)
\* rows of page_table a run can touch: the pages of the file and page 0
Rows == {0} \cup {atoi(file[i]) : i \in 1..Len(file)}
Policy == Policies[run]
\* page_table[p] with p >= MAX_NUM_PAGES is the memory that follows the array:
\* the reset loops never write it, so a run finds it with any content (here:
\* either valid bit, any frame index); reads and writes through such an index
\* go to that memory
BeyondRows == {p \in Rows : p >= MAX_NUM_PAGES}
BeyondContents ==
    {[c \in 0..2 |-> IF c = 0 THEN f ELSE IF c = 1 THEN b ELSE INVALID_BIT] :
        f \in Frames, b \in {INVALID_BIT, VALID_BIT}}

\* ------------------------------------------------------------ streams
\* addresses >> referenceString: the extraction succeeds while a token is left
\* (the newline after it keeps eofbit clear); with none left the sentry fails,
\* eofbit and failbit are set and the string keeps its value
ExtractOk == pos < Len(file)
Extracted == IF ExtractOk THEN file[pos + 1] ELSE referenceString
\* an extraction whose failure at the end of the file goes unnoticed
ExtractNeverEof ==
    /\ referenceString' = Extracted
    /\ pos' = IF ExtractOk THEN pos + 1 ELSE pos
    /\ eof' = FALSE
    /\ reference' = atoi(Extracted)

Extract ==
    /\ referenceString' = Extracted
    /\ pos' = IF ExtractOk THEN pos + 1 ELSE pos
    /\ eof' = ~ExtractOk
    /\ reference' = atoi(Extracted)

\* OPT's first pass, oracle >> referenceString repeated PROC_POOL_SIZE times:
\* the string after the i-th extraction (a failed extraction leaves it alone)
OracleToken(i) ==
    IF i <= Len(file) THEN file[i]
    ELSE IF Len(file) = 0 THEN <<>> ELSE Last(file)
\* the j-th element (from 0) of OPT's vector reference_string, of which
\* `erased` elements have been erased from the front
reference_string_size == PROC_POOL_SIZE - erased
reference_string_at(j) == atoi(OracleToken(erased + j + 1))

\* bookkeeping for the order in which pages were brought in: a fault binds
\* page_table[reference] to a frame, and the fault's number is noted for the page
RecordLoad ==
    loaded_at' = IF fault_rate' # fault_rate
                   THEN [loaded_at EXCEPT ![reference'] = fault_rate']
                   ELSE loaded_at

\* isInMemory that trusts the page table's valid bit
isInMemoryTrusting(ft, page, ref) == 1

\* isInMemory(frame_table, page, reference)
isInMemory(ft, page, ref) == IF ft[page][0] = ref THEN 1 ELSE 0

\* ---------------------------------------------------------------- main
InitWith(traces) ==
    /\ file \in {FileOf(t) : t \in traces}
    /\ MAX_PAGE_FRAMES \in 2..MaxFrames
    /\ postinc \in {0, 1}
    /\ page_table = [p \in Rows |-> [c \in 0..2 |-> Indeterminate]]
    /\ frame_table = [f \in Frames |-> [c \in 0..1 |-> Indeterminate]]
    /\ main_free_frame_list = [i \in 1..MAX_PAGE_FRAMES |-> 0]
    /\ pc = "reset"
    /\ run = 1
    /\ free_frame_list = <<>>
    /\ pos = 0
    /\ eof = FALSE
    /\ referenceString = <<>>
    /\ reference = 0
    /\ fault_rate = 0
    /\ FIFOSelection = 0
    /\ erased = 0
    /\ freeframe = 0
    /\ path = "none"
    /\ loaded_at = [p \in Rows |-> 0]
    /\ report = <<>>

\* main started on a file whose entries are page numbers below MAX_NUM_PAGES
Init == InitWith(Traces)

\* main started on a file with an entry that is no index of page_table
InitOutOfRange == InitWith(OutOfRangeTraces)

\* main started on a file longer than PROC_POOL_SIZE entries
InitLongTrace == InitWith(LongTraces)

\* the three initialisation loops main runs before each policy
MainReset ==
    /\ pc = "reset"
    /\ \E beyond \in [BeyondRows -> BeyondContents] :
           page_table' = [p \in Rows |-> IF p < MAX_NUM_PAGES
                                           THEN [c \in 0..2 |-> INVALID_BIT]
                                           ELSE beyond[p]]
    /\ frame_table' = [f \in Frames |-> [c \in 0..1 |-> IF c = 0 THEN 0 ELSE INVALID_BIT]]
    /\ main_free_frame_list' =
           main_free_frame_list \o [i \in 1..MAX_PAGE_FRAMES |-> i - 1]
    /\ pc' = "call"
    /\ UNCHANGED <<file, MAX_PAGE_FRAMES, postinc, run, free_frame_list, pos, eof,
                   referenceString, reference, fault_rate, FIFOSelection, erased,
                   freeframe, path, loaded_at, report>>

\* the call of a policy: free_frame_list is passed by value, the tables by
\* pointer; the callee opens the file and initialises its locals
Call ==
    /\ pc = "call"
    /\ free_frame_list' = main_free_frame_list
    /\ pos' = 0
    /\ eof' = FALSE
    /\ referenceString' =
           IF Policy = "OPT" THEN OracleToken(PROC_POOL_SIZE) ELSE <<>>
    /\ reference' = 0
    /\ fault_rate' = 0
    /\ FIFOSelection' = IF Policy = "FIFO" THEN MAX_PAGE_FRAMES - 1 ELSE 0
    /\ erased' = 0
    /\ freeframe' = 0
    /\ path' = "none"
    /\ loaded_at' = [p \in Rows |-> 0]
    /\ pc' = "loop"
    /\ UNCHANGED <<file, MAX_PAGE_FRAMES, postinc, page_table, frame_table,
                   main_free_frame_list, run, report>>

\* the loop has ended: the fault count is printed and the callee returns
Return ==
    /\ pc = "loop"
    /\ eof
    /\ report' = Append(report, fault_rate)
    /\ pc' = IF run = Len(Policies) THEN "done" ELSE "reset"
    /\ run' = IF run = Len(Policies) THEN run ELSE run + 1
    /\ UNCHANGED <<file, MAX_PAGE_FRAMES, postinc, page_table, frame_table,
                   main_free_frame_list, free_frame_list, pos, eof, referenceString,
                   reference, fault_rate, FIFOSelection, erased, freeframe, path,
                   loaded_at>>

\* ---------------------------------------------------------------- FIFO
\* the cursor without its roll-over
FIFOAdvanceNoWrap(sel) == sel - 1

\* the cursor after one use
FIFOAdvance(sel) == IF sel - 1 = 0 THEN MAX_PAGE_FRAMES - 1 ELSE sel - 1

\* page_table[reference][1] == INVALID_BIT
FIFOInvalid(r) ==
    LET empty == Len(free_frame_list) = 0
        ff == IF empty THEN FIFOSelection ELSE Last(free_frame_list)
    IN  /\ FIFOSelection' = IF empty THEN FIFOAdvance(FIFOSelection) ELSE FIFOSelection
        /\ free_frame_list' = IF empty THEN free_frame_list ELSE pop_back(free_frame_list)
        /\ page_table' = [page_table EXCEPT ![r][0] = ff, ![r][1] = VALID_BIT]
        /\ frame_table' = [frame_table EXCEPT ![ff][0] = r]
        /\ fault_rate' = fault_rate + 1
        /\ freeframe' = ff
        /\ path' = "invalid"

\* FIFO's stale branch with the push_back the other policies have
FIFOStalePushing(r) ==
    LET ff == FIFOSelection
        oldframe == page_table[r][0]
        oldpage == frame_table[ff][0]
        pt1 == IF oldpage # -1
                 THEN [page_table EXCEPT ![oldpage][1] = INVALID_BIT]
                 ELSE page_table
        ft1 == [frame_table EXCEPT ![ff][0] = r]
    IN  /\ FIFOSelection' = FIFOAdvance(FIFOSelection)
        /\ page_table' = [pt1 EXCEPT ![r][0] = ff, ![r][1] = VALID_BIT]
        /\ frame_table' = [ft1 EXCEPT ![oldframe][0] = -1]
        /\ free_frame_list' = push_back(free_frame_list, oldframe)
        /\ fault_rate' = fault_rate + 1
        /\ freeframe' = ff
        /\ path' = "stale"

\* the page is marked valid but the frame it names holds something else
FIFOStale(r) ==
    LET ff == FIFOSelection
        oldframe == page_table[r][0]
        oldpage == frame_table[ff][0]
        pt1 == IF oldpage # -1
                 THEN [page_table EXCEPT ![oldpage][1] = INVALID_BIT]
                 ELSE page_table
        ft1 == [frame_table EXCEPT ![ff][0] = r]
    IN  /\ FIFOSelection' = FIFOAdvance(FIFOSelection)
        /\ page_table' = [pt1 EXCEPT ![r][0] = ff, ![r][1] = VALID_BIT]
        /\ frame_table' = [ft1 EXCEPT ![oldframe][0] = -1]
        /\ free_frame_list' = free_frame_list
        /\ fault_rate' = fault_rate + 1
        /\ freeframe' = ff
        /\ path' = "stale"

Hit ==
    /\ path' = "hit"
    /\ UNCHANGED <<page_table, frame_table, free_frame_list, fault_rate,
                   FIFOSelection, freeframe>>

FIFOStep ==
    /\ pc = "loop"
    /\ Policy = "FIFO"
    /\ ~eof
    /\ Extract
    /\ LET r == atoi(Extracted)
       IN  IF page_table[r][1] = INVALID_BIT
             THEN FIFOInvalid(r)
             ELSE IF isInMemory(frame_table, page_table[r][0], r) = 0
                    THEN FIFOStale(r)
                    ELSE Hit
    /\ RecordLoad
    /\ UNCHANGED <<file, MAX_PAGE_FRAMES, postinc, main_free_frame_list, pc, run,
                   erased, report>>

\* ------------------------------------------------------------ LRU, MRU
\* frame_table[p][1] = frame_table[p][1]++ : unsequenced before C++17 (the
\* build decides whether the increment survives), the old value since C++17
PostIncAssign(x) == x + postinc

\* the loop `for p: if (p == skip) continue; frame_table[p][1] = frame_table[p][1]++`
IncrementOthers(ft, skip) ==
    [p \in DOMAIN ft |->
        IF p = skip THEN ft[p] ELSE [ft[p] EXCEPT ![1] = PostIncAssign(ft[p][1])]]

\* type == "MRU": for k = 1..: if (frame_table[k][1] > max) { max = ..; freeframe = k; }
RECURSIVE ScanGreater(_, _, _, _)
ScanGreater(ft, k, max, ff) ==
    IF k >= MAX_PAGE_FRAMES THEN ff
    ELSE IF ft[k][1] > max THEN ScanGreater(ft, k + 1, ft[k][1], k)
         ELSE ScanGreater(ft, k + 1, max, ff)

\* the scan for the smallest counter with <= for <: among equals the last wins
RECURSIVE ScanLessOrEqual(_, _, _, _)
ScanLessOrEqual(ft, k, min, ff) ==
    IF k >= MAX_PAGE_FRAMES THEN ff
    ELSE IF ft[k][1] <= min THEN ScanLessOrEqual(ft, k + 1, ft[k][1], k)
         ELSE ScanLessOrEqual(ft, k + 1, min, ff)

\* otherwise: for k = 1..: if (frame_table[k][1] < min) { min = ..; freeframe = k; }
RECURSIVE ScanLess(_, _, _, _)
ScanLess(ft, k, min, ff) ==
    IF k >= MAX_PAGE_FRAMES THEN ff
    ELSE IF ft[k][1] < min THEN ScanLess(ft, k + 1, ft[k][1], k)
         ELSE ScanLess(ft, k + 1, min, ff)

RUVictim(type, ft) ==
    IF type = "MRU" THEN ScanGreater(ft, 1, ft[0][1], 0)
                    ELSE ScanLess(ft, 1, ft[0][1], 0)

\* the statements after the if / else if, run on every iteration
RUTrailer(pt, ft, r) ==
    IncrementOthers([ft EXCEPT ![pt[r][0]][1] = 0], pt[r][0])

RUInvalid(type, r) ==
    LET empty == Len(free_frame_list) = 0
        ff == IF empty THEN RUVictim(type, frame_table) ELSE Last(free_frame_list)
        pt1 == [page_table EXCEPT ![r][0] = ff, ![r][1] = VALID_BIT]
        ft1 == IncrementOthers([frame_table EXCEPT ![ff][0] = r], ff)
    IN  /\ fault_rate' = fault_rate + 1
        /\ free_frame_list' = IF empty THEN free_frame_list ELSE pop_back(free_frame_list)
        /\ page_table' = pt1
        /\ frame_table' = RUTrailer(pt1, ft1, r)
        /\ freeframe' = ff
        /\ path' = "invalid"

\* the stale branch counting its fault on entry and again on exit
RUStaleCountingTwice(type, r) ==
    LET ff == RUVictim(type, frame_table)
        oldframe == page_table[r][0]
        oldpage == frame_table[ff][0]
        pt1 == [page_table EXCEPT ![oldpage][1] = INVALID_BIT]
        pt2 == [pt1 EXCEPT ![r][0] = ff, ![r][1] = VALID_BIT]
        ft1 == IncrementOthers([frame_table EXCEPT ![ff][0] = r], ff)
    IN  /\ fault_rate' = fault_rate + 2
        /\ page_table' = pt2
        /\ free_frame_list' = push_back(free_frame_list, oldframe)
        /\ frame_table' = RUTrailer(pt2, ft1, r)
        /\ freeframe' = ff
        /\ path' = "stale"

\* the page is marked valid but the frame it names holds something else
RUStale(type, r) ==
    LET ff == RUVictim(type, frame_table)
        oldframe == page_table[r][0]
        oldpage == frame_table[ff][0]
        pt1 == [page_table EXCEPT ![oldpage][1] = INVALID_BIT]
        pt2 == [pt1 EXCEPT ![r][0] = ff, ![r][1] = VALID_BIT]
        ft1 == IncrementOthers([frame_table EXCEPT ![ff][0] = r], ff)
    IN  /\ fault_rate' = fault_rate + 1
        /\ page_table' = pt2
        /\ free_frame_list' = push_back(free_frame_list, oldframe)
        /\ frame_table' = RUTrailer(pt2, ft1, r)
        /\ freeframe' = ff
        /\ path' = "stale"

\* a hit that takes a frame off the free list as a fault would
RUHitPopping(r) ==
    /\ frame_table' = RUTrailer(page_table, frame_table, r)
    /\ path' = "hit"
    /\ free_frame_list' = pop_back(free_frame_list)
    /\ UNCHANGED <<page_table, fault_rate, freeframe>>

RUHit(r) ==
    /\ frame_table' = RUTrailer(page_table, frame_table, r)
    /\ path' = "hit"
    /\ UNCHANGED <<page_table, free_frame_list, fault_rate, freeframe>>

RUStep ==
    /\ pc = "loop"
    /\ Policy \in {"LRU", "MRU"}
    /\ ~eof
    /\ Extract
    /\ LET r == atoi(Extracted)
       IN  IF page_table[r][1] = INVALID_BIT
             THEN RUInvalid(Policy, r)
             ELSE IF isInMemory(frame_table, page_table[r][0], r) = 0
                    THEN RUStale(Policy, r)
                    ELSE RUHit(r)
    /\ RecordLoad
    /\ UNCHANGED <<file, MAX_PAGE_FRAMES, postinc, main_free_frame_list, pc, run,
                   FIFOSelection, erased, report>>

\* ----------------------------------------------------------------- OPT
\* futureref[i]: PROC_POOL_SIZE + 100, or the first j with
\* reference_string.at(j) == frame_table[i][0]
futureref(ft, i) ==
    LET hits == {j \in 0..(reference_string_size - 1) : reference_string_at(j) = ft[i][0]}
    IN  IF hits = {} THEN PROC_POOL_SIZE + 100
        ELSE CHOOSE j \in hits : \A k \in hits : j <= k

\* the scan with >= for >: among equal distances the last frame wins
RECURSIVE ScanFutureKeepingLast(_, _, _, _)
ScanFutureKeepingLast(fr, i, max_turns, victim) ==
    IF i >= MAX_PAGE_FRAMES THEN victim
    ELSE IF fr[i] >= max_turns THEN ScanFutureKeepingLast(fr, i + 1, fr[i], i)
         ELSE ScanFutureKeepingLast(fr, i + 1, max_turns, victim)

\* for i = 0..: if (futureref[i] > max_turns) { max_turns = futureref[i]; victim = i; }
RECURSIVE ScanFuture(_, _, _, _)
ScanFuture(fr, i, max_turns, victim) ==
    IF i >= MAX_PAGE_FRAMES THEN victim
    ELSE IF fr[i] > max_turns THEN ScanFuture(fr, i + 1, fr[i], i)
         ELSE ScanFuture(fr, i + 1, max_turns, victim)

identifyPageToRemove(ft) ==
    ScanFuture([i \in Frames |-> futureref(ft, i)], 0, -1, 0)

OPTInvalid(r) ==
    LET empty == Len(free_frame_list) = 0
        ff == IF empty THEN identifyPageToRemove(frame_table) ELSE Last(free_frame_list)
    IN  /\ free_frame_list' = IF empty THEN free_frame_list ELSE pop_back(free_frame_list)
        /\ page_table' = [page_table EXCEPT ![r][0] = ff, ![r][1] = VALID_BIT]
        /\ frame_table' = [frame_table EXCEPT ![ff][0] = r]
        /\ fault_rate' = fault_rate + 1
        /\ freeframe' = ff
        /\ path' = "invalid"

OPTStale(r) ==
    LET ff == identifyPageToRemove(frame_table)
        oldframe == page_table[r][0]
        oldpage == frame_table[ff][0]
        pt1 == [page_table EXCEPT ![oldpage][1] = INVALID_BIT]
    IN  /\ page_table' = [pt1 EXCEPT ![r][0] = ff, ![r][1] = VALID_BIT]
        /\ frame_table' = [frame_table EXCEPT ![ff][0] = r]
        /\ free_frame_list' = push_back(free_frame_list, oldframe)
        /\ fault_rate' = fault_rate + 1
        /\ freeframe' = ff
        /\ path' = "stale"

OPTStep ==
    /\ pc = "loop"
    /\ Policy = "OPT"
    /\ ~eof
    /\ Extract
    /\ LET r == atoi(Extracted)
       IN  IF page_table[r][1] = INVALID_BIT
             THEN OPTInvalid(r)
             ELSE IF isInMemory(frame_table, page_table[r][0], r) = 0
                    THEN OPTStale(r)
                    ELSE Hit
    /\ erased' = IF reference_string_size > 0 THEN erased + 1 ELSE erased
    /\ RecordLoad
    /\ UNCHANGED <<file, MAX_PAGE_FRAMES, postinc, main_free_frame_list, pc, run,
                   FIFOSelection, report>>

\* ----------------------------------------------------------- RAN, RAN2
\* (double) rand() / (RAND_MAX+1.0) * MAX_PAGE_FRAMES truncated, and
\* rand() % MAX_PAGE_FRAMES: each can yield any frame index and nothing else
RandomFrames(ref) == Frames

RANInvalid(r, draw) ==
    LET empty == Len(free_frame_list) = 0
        ff == IF empty THEN draw ELSE Last(free_frame_list)
    IN  /\ free_frame_list' = IF empty THEN free_frame_list ELSE pop_back(free_frame_list)
        /\ page_table' = [page_table EXCEPT ![r][0] = ff, ![r][1] = VALID_BIT]
        /\ frame_table' = [frame_table EXCEPT ![ff][0] = r]
        /\ fault_rate' = fault_rate + 1
        /\ freeframe' = ff
        /\ path' = "invalid"

RANStale(r, draw) ==
    LET ff == draw
        oldframe == page_table[r][0]
        oldpage == frame_table[ff][0]
        pt1 == [page_table EXCEPT ![oldpage][1] = INVALID_BIT]
    IN  /\ page_table' = [pt1 EXCEPT ![r][0] = ff, ![r][1] = VALID_BIT]
        /\ frame_table' = [frame_table EXCEPT ![ff][0] = r]
        /\ free_frame_list' = push_back(free_frame_list, oldframe)
        /\ fault_rate' = fault_rate + 1
        /\ freeframe' = ff
        /\ path' = "stale"

RANStep ==
    /\ pc = "loop"
    /\ Policy \in {"RAN", "RAN2"}
    /\ ~eof
    /\ Extract
    /\ LET r == atoi(Extracted)
           invalid == page_table[r][1] = INVALID_BIT
           stale == ~invalid /\ isInMemory(frame_table, page_table[r][0], r) = 0
           draws == IF (invalid /\ Len(free_frame_list) = 0) \/ stale
                      THEN RandomFrames(Policy) ELSE {0}
       IN  \E draw \in draws :
             IF invalid THEN RANInvalid(r, draw)
             ELSE IF stale THEN RANStale(r, draw)
             ELSE Hit
    /\ RecordLoad
    /\ UNCHANGED <<file, MAX_PAGE_FRAMES, postinc, main_free_frame_list, pc, run,
                   FIFOSelection, erased, report>>

Next ==
    \/ MainReset
    \/ Call
    \/ FIFOStep
    \/ RUStep
    \/ OPTStep
    \/ RANStep
    \/ Return

Spec == Init /\ [][Next]_vars

\* main is one sequential thread: a step that can be taken is taken
FairSpec == Spec /\ WF_vars(Next)

\* main on a file with out-of-range entries
SpecOutOfRange == InitOutOfRange /\ [][Next]_vars

SpecLongTrace == InitLongTrace /\ [][Next]_vars

\* ======================================================== properties
\* a policy run is under way and its tables have been reset
InRun == pc = "loop"
\* the run has not processed a reference yet
AtRunStart == InRun /\ path = "none"
\* the run's loop has ended and its count is about to be printed
AtRunEnd == InRun /\ eof
\* one iteration of a reading loop
Iteration == pc = "loop" /\ ~eof

PageOf(i) == atoi(file[i])
Valid(p) == page_table[p][1] = VALID_BIT
\* page p is resident: marked valid and confirmed by the frame it names
Resident(p) == Valid(p) /\ frame_table[page_table[p][0]][0] = p
FreeSet == {free_frame_list[i] : i \in 1..Len(free_frame_list)}
OccupiedSet == {f \in Frames : \E p \in Rows : Resident(p) /\ page_table[p][0] = f}
NoRepeat == \A i, j \in 1..Len(file) : i # j => PageOf(i) # PageOf(j)
ReportOf(name) == report[CHOOSE i \in 1..Len(Policies) : Policies[i] = name]
Reported(name) == \E i \in 1..Len(report) : Policies[i] = name

\* C1: during every policy run the frames in the free list and the frames
\* occupied by a resident page are disjoint and together are all the frames.
C1_FreeOccupiedPartition ==
    InRun => /\ FreeSet \cap OccupiedSet = {}
             /\ FreeSet \cup OccupiedSet = Frames

\* C2: after a reference has been processed, page p is marked valid with frame f
\* exactly when frame-table entry f records p as its occupant.
C2_PageFrameAgree ==
    (InRun /\ path # "none") =>
        \A p \in Rows : \A f \in Frames :
            (Valid(p) /\ page_table[p][0] = f) <=> (frame_table[f][0] = p)

\* C3: the fault count OPT reports is at most the count reported by each of
\* FIFO, LRU, MRU, RAN and RAN2 on the same trace.
C3_OPTIsMinimal ==
    pc = "done" =>
        \A name \in {"FIFO", "LRU", "MRU", "RAN", "RAN2"} :
            ReportOf("OPT") <= ReportOf(name)

\* C4: a reference to a page that is not resident just before it (invalid, or
\* valid but stale) raises the fault counter by exactly 1, and a reference to a
\* resident page leaves the counter unchanged, under every policy.
C4_FaultIffNotResident ==
    [][Iteration =>
          fault_rate' = fault_rate + (IF Resident(reference') THEN 0 ELSE 1)]_vars

\* OPT has just counted a fault on a page that was marked valid but stale
C4_Witness ==
    InRun /\ Policy = "OPT" /\ path = "stale" /\ fault_rate >= 3

\* C5: with 3 frames and the trace 0,1,2,3,0,1,4,0,1,2,3,4 FIFO reports 9 faults.
C5_FIFOBeladyNine ==
    (file = FileOf(BeladyTrace) /\ MAX_PAGE_FRAMES = 3 /\ Reported("FIFO"))
        => ReportOf("FIFO") = 9

\* C6: with 3 frames and the trace 0,1,2,3,0,1,4,0,1,2,3,4 LRU reports 10 faults.
C6_LRUBeladyTen ==
    (file = FileOf(BeladyTrace) /\ MAX_PAGE_FRAMES = 3 /\ Reported("LRU"))
        => ReportOf("LRU") = 10

\* C7: on a trace in which no page occurs twice every policy reports a fault
\* count equal to the trace length, whatever the frame count.
C7_DistinctTraceFaults ==
    NoRepeat => \A i \in 1..Len(report) : report[i] = Len(file)

\* C8: on the empty trace every policy run ends with 0 faults, a free list that
\* still holds every frame index, and no page marked valid.
C8_EmptyTrace ==
    (Len(file) = 0 /\ AtRunEnd) =>
        /\ fault_rate = 0
        /\ FreeSet = Frames
        /\ \A p \in Rows : ~Valid(p)

\* C9: at the start of each policy run every page is invalid, no frame holds a
\* page, and the free list holds each frame index exactly once.
C9_FreshTables ==
    AtRunStart =>
        /\ \A p \in Rows : ~Valid(p)
        /\ OccupiedSet = {}
        /\ Len(free_frame_list) = MAX_PAGE_FRAMES
        /\ FreeSet = Frames

SelectorStep == path' = "stale" \/ (path' = "invalid" /\ free_frame_list = <<>>)
\* the iteration counts a fault
FaultStep == fault_rate' # fault_rate

\* C11: a victim selector is consulted only when the free list is empty, and a
\* fault taken while the free list is non-empty is served from the free list.
C11_SelectorOnlyWhenExhausted ==
    [][Iteration =>
          /\ SelectorStep => free_frame_list = <<>>
          /\ (FaultStep /\ free_frame_list # <<>>) =>
                 /\ freeframe' = Last(free_frame_list)
                 /\ free_frame_list' = pop_back(free_frame_list)]_vars

\* C12: a reference to a resident page leaves the free list, the fault counter,
\* every frame's occupant and every page's validity and frame unchanged; only
\* the recency column of the frame table may change, and only under LRU / MRU.
C12_HitChangesOnlyRecency ==
    [][(Iteration /\ Resident(reference')) =>
          /\ free_frame_list' = free_frame_list
          /\ fault_rate' = fault_rate
          /\ \A f \in Frames : frame_table'[f][0] = frame_table[f][0]
          /\ \A p \in Rows : /\ page_table'[p][0] = page_table[p][0]
                             /\ page_table'[p][1] = page_table[p][1]
          /\ Policy \notin {"LRU", "MRU"} => frame_table' = frame_table]_vars

\* LRU has just served a hit in a build whose recency counters move
C12_Witness ==
    InRun /\ Policy = "LRU" /\ path = "hit"
          /\ \E f \in Frames : frame_table[f][1] > 0

\* C13: every consultation of a victim selector (FIFO's cursor, the LRU / MRU
\* scan, identifyPageToRemove, the random draw) yields a frame index v with
\* 0 <= v < MAX_PAGE_FRAMES.
C13_VictimInRange ==
    [][(Iteration /\ SelectorStep) =>
          (freeframe' >= 0 /\ freeframe' < MAX_PAGE_FRAMES)]_vars

\* FIFO's cursor has been used often enough to roll over
C13_Witness ==
    InRun /\ Policy = "FIFO" /\ path = "stale" /\ fault_rate >= 2 * MAX_PAGE_FRAMES + 2
          /\ FIFOSelection = MAX_PAGE_FRAMES - 1

\* C14: a trace entry outside [0, MAX_NUM_PAGES) is rejected before any table
\* is indexed with it: the iteration that reads it changes neither the page
\* table, the frame table, the free list nor the fault counter.
C14_OutOfRangeRejected ==
    [][(Iteration /\ (reference' < 0 \/ reference' >= MAX_NUM_PAGES)) =>
          /\ page_table' = page_table
          /\ frame_table' = frame_table
          /\ free_frame_list' = free_frame_list
          /\ fault_rate' = fault_rate]_vars

\* C15: every policy run over a finite trace terminates: each of the six runs
\* exhausts the trace, leaves its loop and reports its fault count.
C15_Terminates == <>(pc = "done" /\ Len(report) = Len(Policies))

\* all six runs have ended and printed their counts
C15_Witness == pc = "done" /\ Len(report) = Len(Policies)

\* C16: within a policy run the fault counter never decreases from one
\* reference to the next, and no reference raises it by more than 1.
C16_FaultCounterSteps ==
    [][Iteration =>
          (fault_rate' >= fault_rate /\ fault_rate' <= fault_rate + 1)]_vars

\* MRU has served a hit after at least three counted faults
C16_Witness == InRun /\ Policy = "MRU" /\ path = "hit" /\ fault_rate >= 3

\* C17: when a fault is resolved by evicting (the free list is empty and a
\* selector chooses frame v), the page resident in v just before is marked
\* invalid in the same step that binds the new page to v, on both fault paths.
C17_EvictedPageInvalidated ==
    [][(Iteration /\ FaultStep /\ free_frame_list = <<>>) =>
          LET v == freeframe'
              old == frame_table[v][0]
          IN  (old \in Rows /\ old # reference' /\ Resident(old)
                   /\ page_table[old][0] = v)
                  => page_table'[old][1] = INVALID_BIT]_vars

\* the pages resident in memory
ResidentPages == {p \in Rows : Resident(p)}

\* C18: on every FIFO eviction the page removed is, among the pages resident at
\* that moment, the one that was brought into memory earliest.
C18_FIFOEvictsOldest ==
    [][(Iteration /\ Policy = "FIFO" /\ SelectorStep /\ ResidentPages # {}) =>
          LET old == frame_table[freeframe'][0]
          IN  /\ old \in ResidentPages
              /\ \A q \in ResidentPages : loaded_at[old] <= loaded_at[q]]_vars

\* C19: in a FIFO run the cursor starts at MAX_PAGE_FRAMES-1, the victim is the
\* frame at the cursor, and each eviction moves the cursor down by one, back to
\* MAX_PAGE_FRAMES-1 only after frame 0 has been the victim (so that every
\* frame is chosen once in MAX_PAGE_FRAMES consecutive evictions).
C19_FIFOCursorCycle ==
    [][(Iteration /\ Policy = "FIFO") =>
          /\ path = "none" => FIFOSelection = MAX_PAGE_FRAMES - 1
          /\ SelectorStep =>
                 /\ freeframe' = FIFOSelection
                 /\ FIFOSelection' = IF FIFOSelection = 0
                                       THEN MAX_PAGE_FRAMES - 1
                                       ELSE FIFOSelection - 1]_vars

\* positions of the file not yet processed when an iteration starts: the entry
\* the iteration reads and everything after it
Remaining == (pos + 1)..Len(file)
\* where page p is referenced next, or beyond the end of the file if never
NextUse(p) ==
    LET uses == {i \in Remaining : PageOf(i) = p}
    IN  IF uses = {} THEN Len(file) + 1
        ELSE CHOOSE i \in uses : \A k \in uses : i <= k
\* the lowest frame among those whose occupant is referenced farthest ahead
FarthestFrame ==
    CHOOSE f \in Frames :
        /\ \A g \in Frames : NextUse(frame_table[g][0]) <= NextUse(frame_table[f][0])
        /\ \A g \in Frames :
               NextUse(frame_table[g][0]) = NextUse(frame_table[f][0]) => f <= g

\* C20: on every OPT eviction identifyPageToRemove returns the frame whose
\* occupant's next reference lies farthest ahead in the remaining trace, an
\* occupant never referenced again counting as farthest; ties go to the lowest
\* frame index.
C20_OPTEvictsFarthest ==
    [][(Iteration /\ Policy = "OPT" /\ SelectorStep) =>
          freeframe' = FarthestFrame]_vars

\* OPT has just evicted on a stale fault, and the frame it chose is not frame 0:
\* some occupant's next reference lay strictly farther than frame 0's
C20_Witness ==
    InRun /\ Policy = "OPT" /\ path = "stale" /\ freeframe > 0

\* the lowest frame among those whose recency counter is largest
LargestCounterFrame ==
    CHOOSE f \in Frames :
        /\ \A g \in Frames : frame_table[g][1] <= frame_table[f][1]
        /\ \A g \in Frames : frame_table[g][1] = frame_table[f][1] => f <= g

\* C21: on every eviction of an LRU run the victim is the frame whose recency
\* counter is largest, the lowest frame index among equals.
C21_LRUEvictsLargestCounter ==
    [][(Iteration /\ Policy = "LRU" /\ SelectorStep) =>
          freeframe' = LargestCounterFrame]_vars

\* C22: in LRU and MRU runs, after a reference r is processed the recency
\* counter of the frame holding r is 0 and the counter of every other occupied
\* frame is exactly 1 greater than before the reference.
C22_RecencyCounterUpdate ==
    [][(Iteration /\ Policy \in {"LRU", "MRU"}) =>
          LET f == page_table'[reference'][0]
          IN  /\ frame_table'[f][1] = 0
              /\ \A g \in OccupiedSet \ {f} :
                     frame_table'[g][1] = frame_table[g][1] + 1]_vars

\* C23: under every policy, right after a reference to page r has been
\* processed (hit or fault) page r is resident: its page-table entry is valid
\* and the frame it names records r as occupant.
C23_ResidentAfterReference ==
    [][Iteration =>
          /\ page_table'[reference'][1] = VALID_BIT
          /\ frame_table'[page_table'[reference'][0]][0] = reference']_vars

\* an iteration that serves its fault by popping the free list
PopStep == path' = "invalid" /\ free_frame_list # <<>>

\* C24: a fault served from the free list never displaces a resident page: the
\* frame popped is not the frame of any resident page, so the other resident
\* pages are the same before and after the allocation.
C24_PopDisplacesNobody ==
    [][(Iteration /\ PopStep) =>
          /\ Last(free_frame_list) \notin OccupiedSet
          /\ \A p \in ResidentPages \ {reference'} :
                 /\ page_table'[p][1] = VALID_BIT
                 /\ frame_table'[page_table'[p][0]][0] = p]_vars

\* what an LRU / MRU iteration leaves behind when the claim is right: all
\* recency counters 0, frame 0 as the victim of any scan it ran, and both scans
\* agreeing on the tables it leaves
CountersStayZero ==
    /\ \A f \in Frames : frame_table'[f][1] = 0
    /\ SelectorStep => freeframe' = 0
    /\ RUVictim("LRU", frame_table') = RUVictim("MRU", frame_table')

C26_OneStepPerEntry ==
    [][Iteration =>
          /\ pos < Len(file)
          /\ pos' = pos + 1
          /\ reference' = PageOf(pos')]_vars
====
